---- MODULE Spec2Model ----
(***************************************************************************)
(* Hybrid knowledge retrieval (oracle/services/hybrid_retrieval.py):       *)
(* the result cache, the dual-backend orchestration of retrieve_knowledge  *)
(* and the merge pipeline, as a state machine.                             *)
(*                                                                         *)
(* Scores are exact multiples of 1/6000 (One = 1.0).  md5 is taken to be   *)
(* collision free: a digest is modelled by the string it digests.          *)
(***************************************************************************)
EXTENDS Integers, Sequences, FiniteSets, TLC

VARIABLES
    config,        \* the service's configuration: the adapters it was given and its cache settings
    clock,        \* time.time(), in clock ticks
    store,      \* self._cache
    req,        \* the retrieve_knowledge calls: position, arguments, task results, return value
    fin,        \* function-level specifications: the state and arguments an operation is applied to
    fout        \* function-level specifications: what the operation returned and left behind

vars == <<config, clock, store, req, fin, fout>>

service == <<config, clock, store, req>>

\* no operation applied yet
NoResult == [op |-> "none"]

(***************************************************************************)
(* Bounds                                                                  *)
(***************************************************************************)
\* cache_ttl_seconds, in clock ticks
CacheTtl == 2
\* the latest clock reading of the function-level cache specification
MaxTime == 4
\* the latest clock reading of the service specifications
MaxClock == 3
\* the longest source list the pipeline stages are applied to
MaxPipeLen == 3
\* the most hits the vector backend hands to one merge
MaxHits == 2
\* caches of up to SmallCap entries are drawn with every assignment of timestamps
SmallCap == 3
\* the large max_cache_size, drawn with patterned timestamps
BigCap == 20

(***************************************************************************)
(* Text.  A string is a sequence of tokens: a token is one character, or   *)
(* a block "x*N" standing for N consecutive letters x.  Blocks keep texts  *)
(* of hundreds of characters short; the letter x occurs only in blocks.    *)
(***************************************************************************)
Space == " "

\* len() of one token
TokLen(c) ==
    CASE c = "x*60" -> 60
      [] c = "x*150" -> 150
      [] c = "x*2000" -> 2000
      [] OTHER -> 1

RECURSIVE TLen(_)
TLen(t) == IF t = <<>> THEN 0 ELSE TokLen(Head(t)) + TLen(Tail(t))

\* str.lower(), on the capitals the model's texts use
LowerC(c) ==
    CASE c = "A" -> "a"
      [] c = "B" -> "b"
      [] c = "C" -> "c"
      [] c = "D" -> "d"
      [] c = "E" -> "e"
      [] c = "R" -> "r"
      [] OTHER -> c

TLower(t) == [i \in DOMAIN t |-> LowerC(t[i])]

RECURSIVE LStripS(_)
LStripS(s) ==
    IF s = <<>> THEN s
    ELSE IF Head(s) = Space THEN LStripS(Tail(s)) ELSE s

RECURSIVE RStripS(_)
RStripS(s) ==
    IF s = <<>> THEN s
    ELSE IF s[Len(s)] = Space THEN RStripS(SubSeq(s, 1, Len(s) - 1)) ELSE s

\* str.strip()
TStrip(t) == RStripS(LStripS(t))

\* str.split(): the words of s, in order (split on runs of whitespace)
RECURSIVE SplitS(_, _)
SplitS(s, cur) ==
    IF s = <<>> THEN (IF cur = <<>> THEN <<>> ELSE <<cur>>)
    ELSE IF Head(s) = Space
         THEN (IF cur = <<>> THEN SplitS(Tail(s), <<>>)
               ELSE <<cur>> \o SplitS(Tail(s), <<>>))
         ELSE SplitS(Tail(s), Append(cur, Head(s)))

\* set(t.split())
WordSet(t) == LET ws == SplitS(t, <<>>) IN {ws[i] : i \in DOMAIN ws}

\* needle in hay (str.__contains__)
Contains(hay, needle) ==
    \E i \in 0..(Len(hay) - Len(needle)) :
        \A j \in 1..Len(needle) : hay[i + j] = needle[j]

\* sep.join(parts)
RECURSIVE Join(_, _)
Join(parts, sep) ==
    IF parts = <<>> THEN <<>>
    ELSE IF Len(parts) = 1 THEN parts[1]
    ELSE parts[1] \o sep \o Join(Tail(parts), sep)

(***************************************************************************)
(* Configuration defaults (HybridKnowledgeRetrieval.__init__)              *)
(***************************************************************************)
\* self.similarity_threshold, in hundredths
DefaultThreshold == 70
\* max_sources default of options.get("max_sources", 5)
DefaultMaxSources == 5

(***************************************************************************)
(* _generate_cache_key                                                     *)
(***************************************************************************)
OptionKeys == {"max_sources", "include_graph", "include_vector", "similarity_threshold"}

\* options.get(key, default) on a dict given as its items in insertion order
RECURSIVE DictGet(_, _, _)
DictGet(items, key, default) ==
    IF items = <<>> THEN default
    ELSE IF Head(items)[1] = key THEN Head(items)[2]
    ELSE DictGet(Tail(items), key, default)

\* cache_data.items() in the order the dict literal is written
CacheDataNoThreshold(query, options) ==
    << <<"query", TStrip(TLower(query))>>,
       <<"max_sources", DictGet(options, "max_sources", DefaultMaxSources)>>,
       <<"include_graph", DictGet(options, "include_graph", TRUE)>>,
       <<"include_vector", DictGet(options, "include_vector", TRUE)>> >>

\* cache_data with the query as it was given
CacheDataRawQuery(query, options) ==
    << <<"query", query>>,
       <<"max_sources", DictGet(options, "max_sources", DefaultMaxSources)>>,
       <<"include_graph", DictGet(options, "include_graph", TRUE)>>,
       <<"include_vector", DictGet(options, "include_vector", TRUE)>>,
       <<"similarity_threshold",
         DictGet(options, "similarity_threshold", DefaultThreshold)>> >>

CacheData(query, options) ==
    << <<"query", TStrip(TLower(query))>>,
       <<"max_sources", DictGet(options, "max_sources", DefaultMaxSources)>>,
       <<"include_graph", DictGet(options, "include_graph", TRUE)>>,
       <<"include_vector", DictGet(options, "include_vector", TRUE)>>,
       <<"similarity_threshold",
         DictGet(options, "similarity_threshold", DefaultThreshold)>> >>

\* the rank of a key in the lexicographic order of the five key strings
KeyRank(k) ==
    CASE k = "include_graph" -> 1
      [] k = "include_vector" -> 2
      [] k = "max_sources" -> 3
      [] k = "query" -> 4
      [] k = "similarity_threshold" -> 5

\* sorted(items): the keys are distinct, so the order is the order of the keys
SortedItems(items) ==
    LET n == Len(items)
        pos(i) == Cardinality({j \in 1..n : KeyRank(items[j][1]) < KeyRank(items[i][1])}) + 1
    IN  [p \in 1..n |-> items[CHOOSE i \in 1..n : pos(i) = p]]

\* hashlib.md5(str(sorted(cache_data.items())).encode()).hexdigest()
GenerateCacheKey(query, options) == SortedItems(CacheData(query, options))

(***************************************************************************)
(* The cache: self._cache, a dict in insertion order.  An entry is a       *)
(* CacheEntry together with the key it is stored under.                    *)
(***************************************************************************)
CacheKeys(cache) == {cache[i].key : i \in DOMAIN cache}

\* the position of key in the dict, 0 when absent
CacheIndex(cache, key) ==
    IF key \in CacheKeys(cache)
    THEN CHOOSE i \in DOMAIN cache : cache[i].key = key
    ELSE 0

\* del self._cache[k] for every k in keys
RECURSIVE CacheDelete(_, _)
CacheDelete(cache, keys) ==
    IF cache = <<>> THEN <<>>
    ELSE IF Head(cache).key \in keys
         THEN CacheDelete(Tail(cache), keys)
         ELSE <<Head(cache)>> \o CacheDelete(Tail(cache), keys)

\* CacheEntry.is_expired
IsExpiredAtTtl(entry, ttl, now) == now - entry.timestamp >= ttl

IsExpired(entry, ttl, now) == now - entry.timestamp > ttl

\* _get_from_cache: the dict afterwards and the value returned
\* (some = FALSE stands for None)
GetFromCacheTouch(cache, key, now, cfg) ==
    IF ~cfg.cache_enabled \/ key \notin CacheKeys(cache)
    THEN [cache |-> cache, some |-> FALSE, sources |-> <<>>]
    ELSE LET i == CacheIndex(cache, key)
             entry == cache[i]
         IN  IF IsExpired(entry, cfg.cache_ttl, now)
             THEN [cache |-> CacheDelete(cache, {key}), some |-> FALSE, sources |-> <<>>]
             ELSE [cache |-> [cache EXCEPT ![i].access_count = @ + 1, ![i].timestamp = now],
                   some |-> TRUE, sources |-> entry.sources]

GetFromCache(cache, key, now, cfg) ==
    IF ~cfg.cache_enabled \/ key \notin CacheKeys(cache)
    THEN [cache |-> cache, some |-> FALSE, sources |-> <<>>]
    ELSE LET i == CacheIndex(cache, key)
             entry == cache[i]
         IN  IF IsExpired(entry, cfg.cache_ttl, now)
             THEN [cache |-> CacheDelete(cache, {key}), some |-> FALSE, sources |-> <<>>]
             ELSE [cache |-> [cache EXCEPT ![i].access_count = @ + 1],
                   some |-> TRUE, sources |-> entry.sources]

Max(a, b) == IF a >= b THEN a ELSE b
Min(a, b) == IF a <= b THEN a ELSE b

\* entries_to_remove
EntriesToRemoveOne(n) == 1

EntriesToRemove(n) == Max(1, n \div 10)

\* the keys of sorted_entries[:entries_to_remove]: sorted() is stable, so entries of
\* equal timestamp keep their dict order
EvictedKeysWhenOver(cache, cfg) ==
    IF Len(cache) > cfg.max_cache_size
    THEN LET n == Len(cache)
             rank(i) == Cardinality({j \in 1..n :
                            \/ cache[j].timestamp < cache[i].timestamp
                            \/ cache[j].timestamp = cache[i].timestamp /\ j < i}) + 1
         IN  {cache[i].key : i \in {j \in 1..n : rank(j) <= EntriesToRemove(n)}}
    ELSE {}

EvictedKeys(cache, cfg) ==
    IF Len(cache) >= cfg.max_cache_size
    THEN LET n == Len(cache)
             rank(i) == Cardinality({j \in 1..n :
                            \/ cache[j].timestamp < cache[i].timestamp
                            \/ cache[j].timestamp = cache[i].timestamp /\ j < i}) + 1
         IN  {cache[i].key : i \in {j \in 1..n : rank(j) <= EntriesToRemove(n)}}
    ELSE {}

NewEntry(key, sources, now) ==
    [key |-> key, sources |-> sources, timestamp |-> now, access_count |-> 0]

\* self._cache[key] = entry: an existing key keeps its place in the dict
CachePut(cache, entry) ==
    IF entry.key \in CacheKeys(cache)
    THEN [cache EXCEPT ![CacheIndex(cache, entry.key)] = entry]
    ELSE Append(cache, entry)

\* _store_in_cache
StoreInCacheKeepFirst(cache, key, sources, now, cfg) ==
    IF ~cfg.cache_enabled \/ key \in CacheKeys(cache) THEN cache
    ELSE CachePut(CacheDelete(cache, EvictedKeys(cache, cfg)), NewEntry(key, sources, now))

StoreInCache(cache, key, sources, now, cfg) ==
    IF ~cfg.cache_enabled THEN cache
    ELSE CachePut(CacheDelete(cache, EvictedKeys(cache, cfg)), NewEntry(key, sources, now))

\* clear_cache: the dict afterwards; the count returned is Len(cache)
ClearCache(cache) == <<>>

(***************************************************************************)
(* Scores: 1.0 is One; every constant of the scoring code in that unit     *)
(***************************************************************************)
One == 6000
\* graph_weight 0.6 and vector_weight 0.4, in tenths
GraphWeightTenths == 6
VectorWeightTenths == 4
\* _calculate_graph_relevance: 0.5, 0.3, 0.2 for name, description, properties
NameMatchScore == 3000
DescMatchScore == 1800
PropMatchScore == 1200
\* the minimum relevance 0.1 of _convert_graph_to_sources
MinGraphRelevance == 600
\* _calculate_content_boost: 0.1 keyword density, 0.05 and 0.02 length, cap 0.2
KeywordBoost == 600
LengthBoost == 300
LengthBoostWide == 120
ContentBoostCap == 1200
\* _calculate_type_boost: 0.05 graph, 0.03 vector
GraphTypeBoost == 300
VectorTypeBoost == 180
\* _calculate_metadata_boost: 0.02 per indicator, cap 0.1
MetadataStep == 120
MetadataBoostCap == 600
\* Source.content: min_length and max_length
MinContentLen == 1
MaxContentLen == 2000
\* a similarity_score of 1.0, in hundredths
SimilarityOne == 100

(***************************************************************************)
(* Source (models/chat.py): the field constraints pydantic validates       *)
(***************************************************************************)
ValidSource(content, score) ==
    /\ TLen(content) >= MinContentLen
    /\ TLen(content) <= MaxContentLen
    /\ score >= 0
    /\ score <= One

MkSource(type, content, score, metadata) ==
    [type |-> type, content |-> content, relevance_score |-> score,
     metadata |-> metadata, oid |-> <<0, 0>>]

\* score * weight, the weight in tenths
Weighted(score, tenths) == (score * tenths) \div 10

\* a similarity_score (in hundredths) as a score
SimilarityUnits(similarity) == similarity * (One \div SimilarityOne)

\* seq[:], the whole list
TakeAll(seq, n) == seq

\* seq[:n] for n >= 0
Take(seq, n) == SubSeq(seq, 1, Min(n, Len(seq)))

(***************************************************************************)
(* _calculate_graph_relevance, _convert_graph_to_sources                   *)
(***************************************************************************)
\* weight * (matches / len(query_keywords)) when there is a match
MatchScore(words, kw, weight) ==
    LET m == Cardinality(kw \cap words)
    IN  IF m > 0 THEN (weight * m) \div Cardinality(kw) ELSE 0

GraphRelevance(entity, kw) ==
    LET name == MatchScore(WordSet(TLower(entity.name)), kw, NameMatchScore)
        desc == IF entity.description # <<>>
                THEN MatchScore(WordSet(TLower(entity.description)), kw, DescMatchScore)
                ELSE 0
        prop == IF entity.properties # <<>>
                THEN MatchScore(
                        WordSet(Join([i \in DOMAIN entity.properties |->
                                        TLower(entity.properties[i])], <<Space>>)),
                        kw, PropMatchScore)
                ELSE 0
    IN  Min(name + desc + prop, One)

\* the other ends of the relationships an entity takes part in, in result order
RECURSIVE RelatedEntities(_, _)
RelatedEntities(id, rels) ==
    IF rels = <<>> THEN <<>>
    ELSE LET r == Head(rels)
         IN  IF r.source_id = id THEN <<r.target_id>> \o RelatedEntities(id, Tail(rels))
             ELSE IF r.target_id = id
                  THEN <<r.source_id>> \o RelatedEntities(id, Tail(rels))
                  ELSE RelatedEntities(id, Tail(rels))

\* the names of the related entities that are part of the result
RECURSIVE RelatedNames(_, _)
RelatedNames(ids, entities) ==
    IF ids = <<>> THEN <<>>
    ELSE LET found == {i \in DOMAIN entities : entities[i].id = Head(ids)}
         IN  (IF found = {} THEN <<>>
              ELSE <<entities[CHOOSE i \in found : \A j \in found : i <= j].name>>)
             \o RelatedNames(Tail(ids), entities)

LitEntity == <<"E", "n", "t", "i", "t", "y", ":", " ">>
LitDescription == <<"D", "e", "s", "c", "r", "i", "p", "t", "i", "o", "n", ":", " ">>
LitRelatedTo == <<"R", "e", "l", "a", "t", "e", "d", " ", "t", "o", ":", " ">>

GraphContent(entity, graph) ==
    LET related == RelatedEntities(entity.id, graph.relationships)
        names == RelatedNames(Take(related, 3), graph.entities)
    IN  Join(<<LitEntity \o entity.name>>
             \o (IF entity.description # <<>>
                 THEN <<LitDescription \o entity.description>> ELSE <<>>)
             \o (IF names # <<>>
                 THEN <<LitRelatedTo \o Join(names, <<",", " ">>)>> ELSE <<>>),
             <<".", " ">>)

GraphMetadata(entity, graph) ==
    ("entity_id" :> entity.id) @@ ("entity_type" :> entity.type)
    @@ ("entity_name" :> entity.name)
    @@ ("related_entities" :> Take(RelatedEntities(entity.id, graph.relationships), 5))
    @@ ("source_type" :> "neo4j") @@ ("properties" :> entity.properties)

\* the (content, score) pairs of the entities above the minimum relevance, in order
RECURSIVE GraphCandidates(_, _, _)
GraphCandidates(entities, graph, kw) ==
    IF entities = <<>> THEN <<>>
    ELSE LET e == Head(entities)
             rel == GraphRelevance(e, kw)
         IN  (IF rel > MinGraphRelevance
              THEN <<MkSource("graph", GraphContent(e, graph),
                              Weighted(rel, GraphWeightTenths), GraphMetadata(e, graph))>>
              ELSE <<>>)
             \o GraphCandidates(Tail(entities), graph, kw)

\* every Source(...) call passes validation
AllValid(sources) ==
    \A i \in DOMAIN sources : ValidSource(sources[i].content, sources[i].relevance_score)

\* _convert_graph_to_sources: ok = FALSE when a Source(...) call raises ValidationError
ConvertGraphToSources(graph, query) ==
    LET c == GraphCandidates(graph.entities, graph, WordSet(TLower(query)))
    IN  [ok |-> AllValid(c), sources |-> c]

(***************************************************************************)
(* _convert_vector_to_sources                                              *)
(***************************************************************************)
VectorSource(hit) ==
    MkSource("vector", hit.document,
             Weighted(SimilarityUnits(hit.similarity_score), VectorWeightTenths),
             ("document_id" :> hit.id) @@ ("similarity_score" :> hit.similarity_score)
             @@ ("distance" :> hit.distance) @@ ("source_type" :> "chromadb")
             @@ hit.metadata)

ConvertVectorToSources(hits) ==
    LET c == [i \in DOMAIN hits |-> VectorSource(hits[i])]
    IN  [ok |-> AllValid(c), sources |-> c]

(***************************************************************************)
(* _deduplicate_sources                                                    *)
(***************************************************************************)
\* md5 of the normalized content
ContentHash(source) == TStrip(TLower(source.content))

\* a later duplicate takes the place of the kept source
ReplacesOnTie(source, kept) == source.relevance_score >= kept.relevance_score

Replaces(source, kept) == source.relevance_score > kept.relevance_score

RECURSIVE DedupInto(_, _)
DedupInto(deduplicated, sources) ==
    IF sources = <<>> THEN deduplicated
    ELSE LET source == Head(sources)
             same == {i \in DOMAIN deduplicated :
                        ContentHash(deduplicated[i]) = ContentHash(source)}
         IN  IF same = {}
             THEN DedupInto(Append(deduplicated, source), Tail(sources))
             ELSE LET idx == CHOOSE i \in same : \A j \in same : i <= j
                  IN  IF Replaces(source, deduplicated[idx])
                      THEN DedupInto([deduplicated EXCEPT ![idx] = source], Tail(sources))
                      ELSE DedupInto(deduplicated, Tail(sources))

\* drops the first source that repeats an earlier content, and no more
DeduplicateOnce(sources) ==
    LET repeats == {i \in DOMAIN sources :
                      \E j \in 1..(i - 1) : ContentHash(sources[j]) = ContentHash(sources[i])}
    IN  IF repeats = {} THEN sources
        ELSE LET d == CHOOSE i \in repeats : \A j \in repeats : i <= j
             IN  SubSeq(sources, 1, d - 1) \o SubSeq(sources, d + 1, Len(sources))

DeduplicateSources(sources) == DedupInto(<<>>, sources)

(***************************************************************************)
(* _rank_sources and its boosts                                            *)
(***************************************************************************)
ContentBoost(content, kw) ==
    LET density == MatchScore(WordSet(TLower(content)), kw, KeywordBoost)
        n == TLen(content)
        length == IF 100 <= n /\ n <= 500 THEN LengthBoost
                  ELSE IF 50 <= n /\ n <= 1000 THEN LengthBoostWide
                  ELSE 0
    IN  Min(density + length, ContentBoostCap)

TypeBoost(type) ==
    IF type = "graph" THEN GraphTypeBoost
    ELSE IF type = "vector" THEN VectorTypeBoost
    ELSE 0

\* metadata.get(k) is truthy: the values are strings or lists
TruthyString(m, k) == k \in DOMAIN m /\ m[k] # ""
TruthyList(m, k) == k \in DOMAIN m /\ m[k] # <<>>

MetadataBoost(m) ==
    LET rich == IF Cardinality(DOMAIN m) > 3 THEN MetadataStep ELSE 0
        typed == IF TruthyString(m, "entity_type") \/ TruthyString(m, "document_type")
                 THEN MetadataStep ELSE 0
        linked == IF TruthyList(m, "related_entities")
                     \/ TruthyString(m, "parent_document_id")
                  THEN MetadataStep ELSE 0
        known == IF "source_type" \in DOMAIN m /\ m["source_type"] \in {"neo4j", "chromadb"}
                 THEN MetadataStep ELSE 0
    IN  Min(rich + typed + linked + known, MetadataBoostCap)

\* the sum of the four terms, as it is
FinalScoreUnclamped(source, kw) ==
    source.relevance_score + ContentBoost(source.content, kw)
      + TypeBoost(source.type) + MetadataBoost(source.metadata)

FinalScore(source, kw) ==
    Min(source.relevance_score + ContentBoost(source.content, kw)
          + TypeBoost(source.type) + MetadataBoost(source.metadata), One)

\* the scored sources, left in the order they came in
SortSkipped(sources) == sources

\* sorted by descending score, equal scores in reverse input order
SortTiesReversed(sources) ==
    LET n == Len(sources)
        pos(i) == Cardinality({j \in 1..n :
                     \/ sources[j].relevance_score > sources[i].relevance_score
                     \/ sources[j].relevance_score = sources[i].relevance_score /\ j > i}) + 1
    IN  [p \in 1..n |-> sources[CHOOSE i \in 1..n : pos(i) = p]]

\* sorted(sources, key=relevance_score, reverse=True): stable
SortByScore(sources) ==
    LET n == Len(sources)
        pos(i) == Cardinality({j \in 1..n :
                     \/ sources[j].relevance_score > sources[i].relevance_score
                     \/ sources[j].relevance_score = sources[i].relevance_score /\ j < i}) + 1
    IN  [p \in 1..n |-> sources[CHOOSE i \in 1..n : pos(i) = p]]

RankSources(sources, query) ==
    LET kw == WordSet(TLower(query))
    IN  SortByScore([i \in DOMAIN sources |->
                        [sources[i] EXCEPT !.relevance_score = FinalScore(sources[i], kw)]])

(***************************************************************************)
(* _aggregate_context                                                      *)
(***************************************************************************)
\* the document ids of the vector sources whose content holds the entity name
RECURSIVE RelatedDocuments(_, _)
RelatedDocuments(name, sources) ==
    IF sources = <<>> THEN <<>>
    ELSE (IF Head(sources).type = "vector" /\ name # <<>>
             /\ Contains(TLower(Head(sources).content), name)
          THEN <<Head(sources).metadata["document_id"]>> ELSE <<>>)
         \o RelatedDocuments(name, Tail(sources))

\* the sources with nothing but the attribution in their metadata
AggregateContextAnew(sources, now) ==
    [i \in DOMAIN sources |->
        [sources[i] EXCEPT !.metadata =
            ("retrieval_timestamp" :> now) @@ ("retrieval_method" :> "hybrid")]]

AggregateContext(sources, now) ==
    [i \in DOMAIN sources |->
        LET s == sources[i]
            docs == IF s.type = "graph"
                    THEN RelatedDocuments(
                            IF "entity_name" \in DOMAIN s.metadata
                            THEN TLower(s.metadata["entity_name"]) ELSE <<>>, sources)
                    ELSE <<>>
        IN  [s EXCEPT !.metadata =
                ("retrieval_timestamp" :> now) @@ ("retrieval_method" :> "hybrid")
                @@ (IF docs # <<>> THEN ("related_documents" :> Take(docs, 3)) @@ @
                    ELSE @)]]

(***************************************************************************)
(* _merge_and_rank_results.  graph_results is None, a GraphQueryResult or  *)
(* (when the caller confuses the task results) a list of vector hits.      *)
(***************************************************************************)
NoGraph == [kind |-> "none"]

\* the value is truthy: None and the empty list are not, a GraphQueryResult is
Truthy(graph_results) ==
    \/ graph_results.kind = "graph"
    \/ graph_results.kind = "list" /\ graph_results.hits # <<>>

\* ok = FALSE when the call raises (ValidationError, or AttributeError on a list that
\* has no .entities); `owner` names the list object returned
MergeAndRankResults(graph_results, vector_results, query, max_sources, now, owner) ==
    LET g == IF ~Truthy(graph_results) THEN [ok |-> TRUE, sources |-> <<>>]
             ELSE IF graph_results.kind = "list" THEN [ok |-> FALSE, sources |-> <<>>]
             ELSE ConvertGraphToSources(graph_results, query)
        v == IF vector_results # <<>> THEN ConvertVectorToSources(vector_results)
             ELSE [ok |-> TRUE, sources |-> <<>>]
    IN  IF ~g.ok \/ ~v.ok THEN [ok |-> FALSE, sources |-> <<>>]
        ELSE LET ranked == RankSources(DeduplicateSources(g.sources \o v.sources), query)
                 final == AggregateContext(Take(ranked, max_sources), now)
             IN  [ok |-> TRUE,
                  sources |-> [i \in DOMAIN final |-> [final[i] EXCEPT !.oid = <<owner, i>>]]]

(***************************************************************************)
(* The service: HybridKnowledgeRetrieval and the calls of                  *)
(* retrieve_knowledge in flight.  A list object is [id, items]: id names   *)
(* the call that created the list, and a Source carries the oid it got     *)
(* when it was created, so that two references to one object can be told   *)
(* from two equal objects.                                                 *)
(***************************************************************************)
\* the calls of retrieve_knowledge a behaviour can hold
Requests == {1, 2}

NoList == [id |-> 0, items |-> <<>>]

NoEntry == [key |-> <<>>, sources |-> NoList, timestamp |-> 0, access_count |-> 0]

NoArgs == [query |-> <<>>, max_sources |-> 0, include_graph |-> FALSE,
           include_vector |-> FALSE, kwargs |-> <<>>]

NoReturn == [sources |-> NoList, cache_hit |-> FALSE,
             graph_results |-> NoGraph, vector_results |-> <<>>]

\* a call that has not been made.  Beyond the position and the locals of the call, a
\* record keeps what the call met: the cache entry under its key when it looked (saw),
\* how many calls had completed when it began and when it completed (began, order),
\* what each backend did (met), and a copy of the items it stored (stored).
IdleReq ==
    [pc |-> "idle", args |-> NoArgs, key |-> <<>>,
     saw |-> [some |-> FALSE, entry |-> NoEntry, age |-> 0],
     tasks |-> <<>>,
     task |-> [graph |-> "none", vector |-> "none"],
     value |-> [graph |-> NoGraph, vector |-> [kind |-> "list", hits |-> <<>>]],
     met |-> [graph |-> "none", vector |-> "none"],
     result |-> NoReturn, stored |-> <<>>, began |-> 0, order |-> 0]

\* the constructor's arguments: which adapters exist, and the cache settings
Config(neo4j, chromadb, enabled, size) ==
    [neo4j_client |-> neo4j, chromadb_client |-> chromadb,
     similarity_threshold |-> DefaultThreshold,
     cache_enabled |-> enabled, cache_ttl |-> CacheTtl, max_cache_size |-> size]

\* the options dict of retrieve_knowledge: the four named items, then **kwargs
RECURSIVE DictUpdate(_, _)
DictUpdate(items, more) ==
    IF more = <<>> THEN items
    ELSE LET k == Head(more)[1]
             at == {i \in DOMAIN items : items[i][1] = k}
         IN  DictUpdate(IF at = {} THEN Append(items, Head(more))
                        ELSE [items EXCEPT ![CHOOSE i \in at : TRUE] = Head(more)],
                        Tail(more))

Options(a, c) ==
    DictUpdate(<< <<"max_sources", a.max_sources>>,
                  <<"include_graph", a.include_graph>>,
                  <<"include_vector", a.include_vector>>,
                  <<"similarity_threshold",
                    DictGet(a.kwargs, "similarity_threshold", c.similarity_threshold)>> >>,
               a.kwargs)

\* the awaitables handed to asyncio.gather, in order
TasksAllConfigured(a, c) ==
    (IF c.neo4j_client THEN <<"graph">> ELSE <<>>)
    \o (IF c.chromadb_client THEN <<"vector">> ELSE <<>>)

TasksVectorAlways(a, c) ==
    (IF a.include_graph /\ c.neo4j_client THEN <<"graph">> ELSE <<>>)
    \o (IF c.chromadb_client THEN <<"vector">> ELSE <<>>)

Tasks(a, c) ==
    (IF a.include_graph /\ c.neo4j_client THEN <<"graph">> ELSE <<>>)
    \o (IF a.include_vector /\ c.chromadb_client THEN <<"vector">> ELSE <<>>)

\* _retrieve_from_graph: None when the health check fails or anything raises
RetrieveFromGraphUnchecked(outcome) == outcome.result

RetrieveFromGraph(outcome) ==
    IF outcome.status = "ok" THEN outcome.result ELSE NoGraph

\* _retrieve_from_vector: [] when the health check fails or anything raises, else the
\* hits at or above the similarity threshold
\* every hit of the search, whatever its similarity
RetrieveFromVectorUnfiltered(outcome, kwargs, c) ==
    IF outcome.status = "ok" THEN outcome.result ELSE <<>>

RetrieveFromVector(outcome, kwargs, c) ==
    IF outcome.status = "ok"
    THEN LET threshold == DictGet(kwargs, "similarity_threshold", c.similarity_threshold)
             keep(hit) == hit.similarity_score >= threshold
         IN  SelectSeq(outcome.result, keep)
    ELSE <<>>

\* the loop over the gathered results: tasks[i] produced results[i]
RECURSIVE ProcessResults(_, _, _, _)
ProcessResults(results, i, a, got) ==
    IF i > Len(results) THEN got
    ELSE LET result == results[i]
         IN  IF result.kind = "exception"
             THEN ProcessResults(results, i + 1, a, got)
             ELSE IF a.include_graph /\ i = 1
             THEN ProcessResults(results, i + 1, a, [got EXCEPT !.graph_results = result])
             ELSE IF a.include_vector
             THEN ProcessResults(results, i + 1, a, [got EXCEPT !.vector_results = result.hits])
             ELSE ProcessResults(results, i + 1, a, got)

\* the number of calls that have returned or raised
Completed == Cardinality({q \in Requests : req[q].pc \in {"done", "raised"}})

\* return RetrievalResult(sources=cached_sources[:max_sources], cache_hit=True)
CacheHitReturnMiss(r, cached_sources, max_sources) ==
    [sources |-> [id |-> r, items |-> Take(cached_sources.items, max_sources)], cache_hit |-> FALSE,
     graph_results |-> NoGraph, vector_results |-> <<>>]

CacheHitReturn(r, cached_sources, max_sources) ==
    [sources |-> [id |-> r, items |-> Take(cached_sources.items, max_sources)], cache_hit |-> TRUE,
     graph_results |-> NoGraph, vector_results |-> <<>>]

\* the miss path with the cache write left for later
MissPathStoreLater(r, rq, c, got) ==
    LET m == MergeAndRankResults(got.graph_results, got.vector_results, rq.args.query,
                                 rq.args.max_sources, clock, r)
    IN  IF ~m.ok
        THEN [cache |-> c, req |-> [rq EXCEPT !.pc = "raised", !.order = Completed + 1]]
        ELSE [cache |-> c,
              req |-> [rq EXCEPT !.pc = "done", !.order = Completed + 1,
                                 !.stored = IF config.cache_enabled THEN m.sources ELSE <<>>,
                                 !.result = [sources |-> [id |-> r, items |-> m.sources],
                                             cache_hit |-> FALSE,
                                             graph_results |-> got.graph_results,
                                             vector_results |-> got.vector_results]]]

\* lines 237-265: merge, store, return; the call raises when the merge does
MissPath(r, rq, c, got) ==
    LET m == MergeAndRankResults(got.graph_results, got.vector_results, rq.args.query,
                                 rq.args.max_sources, clock, r)
        list == [id |-> r, items |-> m.sources]
    IN  IF ~m.ok
        THEN [cache |-> c,
              req |-> [rq EXCEPT !.pc = "raised", !.order = Completed + 1]]
        ELSE [cache |-> StoreInCache(c, rq.key, list, clock, config),
              req |-> [rq EXCEPT !.pc = "done", !.order = Completed + 1,
                                 !.stored = IF config.cache_enabled THEN m.sources ELSE <<>>,
                                 !.result = [sources |-> list, cache_hit |-> FALSE,
                                             graph_results |-> got.graph_results,
                                             vector_results |-> got.vector_results]]]

NothingGathered == [graph_results |-> NoGraph, vector_results |-> <<>>]

\* retrieve_knowledge up to its first suspension: the fingerprint, the lookup, and
\* either the hit return, or (no task to await) the whole miss path, or the gather
Start(r, a) ==
    /\ req[r].pc = "idle"
    /\ \A q \in Requests : q < r => req[q].pc # "idle"
    /\ LET key == GenerateCacheKey(a.query, Options(a, config))
           looked == GetFromCache(store, key, clock, config)
           tasks == Tasks(a, config)
           held == store[CacheIndex(store, key)]
           rq == [IdleReq EXCEPT !.args = a, !.key = key, !.tasks = tasks,
                    !.began = Completed,
                    !.saw = IF key \in CacheKeys(store)
                            THEN [some |-> TRUE, entry |-> held,
                                  age |-> clock - held.timestamp]
                            ELSE [some |-> FALSE, entry |-> NoEntry, age |-> 0]]
       IN  IF looked.some /\ looked.sources.items # <<>>
           THEN /\ store' = looked.cache
                /\ req' = [req EXCEPT ![r] =
                             [rq EXCEPT !.pc = "done", !.order = Completed + 1, !.tasks = <<>>,
                                        !.result = CacheHitReturn(r, looked.sources,
                                                                  a.max_sources)]]
           ELSE IF tasks = <<>>
           THEN LET out == MissPath(r, rq, looked.cache, NothingGathered)
                IN  store' = out.cache /\ req' = [req EXCEPT ![r] = out.req]
           ELSE /\ store' = looked.cache
                /\ req' = [req EXCEPT ![r] =
                             [rq EXCEPT !.pc = "await",
                                        !.task = [b \in {"graph", "vector"} |->
                                                    IF \E i \in DOMAIN tasks : tasks[i] = b
                                                    THEN "pending" ELSE "none"]]]
    /\ UNCHANGED <<config, clock, fin, fout>>

\* the graph task runs to its end: health check, query, or an exception in either
GraphTaskDone(r, outcome) ==
    /\ req[r].pc = "await"
    /\ req[r].task.graph = "pending"
    /\ req' = [req EXCEPT ![r].task.graph = "done",
                          ![r].met.graph = outcome.status,
                          ![r].value.graph = RetrieveFromGraph(outcome)]
    /\ UNCHANGED <<config, clock, store, fin, fout>>

\* the vector task runs to its end
VectorTaskDone(r, outcome) ==
    /\ req[r].pc = "await"
    /\ req[r].task.vector = "pending"
    /\ req' = [req EXCEPT ![r].task.vector = "done",
                          ![r].met.vector = outcome.status,
                          ![r].value.vector =
                              [kind |-> "list",
                               hits |-> RetrieveFromVector(outcome, req[r].args.kwargs, config)]]
    /\ UNCHANGED <<config, clock, store, fin, fout>>

\* a backend call of the task never completes: nothing bounds the await
TaskHang(r, b) ==
    /\ req[r].pc = "await"
    /\ req[r].task[b] = "pending"
    /\ req' = [req EXCEPT ![r].task[b] = "hung", ![r].met[b] = "hangs"]
    /\ UNCHANGED <<config, clock, store, fin, fout>>

\* gather returns once every task is done; then the result loop and the miss path
Finish(r) ==
    /\ req[r].pc = "await"
    /\ \A b \in {"graph", "vector"} : req[r].task[b] \in {"none", "done"}
    /\ LET rq == req[r]
           results == [i \in DOMAIN rq.tasks |-> rq.value[rq.tasks[i]]]
           out == MissPath(r, rq, store, ProcessResults(results, 1, rq.args, NothingGathered))
       IN  store' = out.cache /\ req' = [req EXCEPT ![r] = out.req]
    /\ UNCHANGED <<config, clock, fin, fout>>

\* clear_cache
ClearCacheCall ==
    /\ store' = ClearCache(store)
    /\ UNCHANGED <<config, clock, req, fin, fout>>

\* the clock advances.  Only differences of clock readings are ever used, so while
\* nothing is cached a tick changes nothing a later step can tell.
Tick ==
    /\ clock < MaxClock
    /\ store # <<>>
    /\ clock' = clock + 1
    /\ UNCHANGED <<config, store, req, fin, fout>>

\* no call made, nothing cached: the state the function-level specifications stay in
ServiceIdle ==
    /\ config = Config(TRUE, TRUE, TRUE, BigCap)
    /\ clock = 0
    /\ store = <<>>
    /\ req = [r \in Requests |-> IdleReq]

(***************************************************************************)
(* What the backends can answer                                            *)
(***************************************************************************)
QA == <<"a", " ", "b">>
\* the same query up to case and surrounding whitespace
QA2 == <<"A", " ", "b", " ">>
QC == <<"c">>

Entity(id, name, description, properties) ==
    [id |-> id, name |-> name, type |-> "Concept", description |-> description,
     properties |-> properties]

\* for QA: name and description match; for QC: the description matches
E1 == Entity("e1", <<"A", " ", "b">>, <<"a", " ", "c">>, <<>>)
\* for QA: one property word of two keywords, a relevance of exactly 0.1
E2 == Entity("e2", <<"c">>, <<>>, << <<"b">> >>)
\* a description that makes the content longer than Source allows
ELong == Entity("e3", <<"a">>, <<"a", " ", "x*2000">>, <<>>)

GraphResult(entities, relationships) ==
    [kind |-> "graph", entities |-> entities, relationships |-> relationships]

G0 == GraphResult(<<>>, <<>>)
G1 == GraphResult(<<E1, E2>>, <<[source_id |-> "e1", target_id |-> "e2"]>>)
GLong == GraphResult(<<ELong>>, <<>>)

\* a hit as similarity_search returns it: similarity_score = 1.0 - distance
Hit(id, document, similarity) ==
    [id |-> id, document |-> document, metadata |-> ("source" :> "upload"),
     distance |-> SimilarityOne - similarity, similarity_score |-> similarity]

H1 == Hit("d1", <<"a", " ", "b", " ", "x*150">>, 80)
H2 == Hit("d2", <<"c", " ", "x*60">>, 70)
\* the document of H1 up to case and surrounding whitespace
H3 == Hit("d3", <<"A", " ", "B", " ", "x*150", " ">>, 90)
\* below the default threshold
HLow == Hit("d4", <<"b">>, 65)
\* a chunk with no text
HEmpty == Hit("d5", <<>>, 75)
\* a chunk of more characters than Source allows
HLong == Hit("d6", <<"a", " ", "x*2000">>, 85)

V0 == <<>>
V1 == <<H1, H2>>
VDup == <<H1, H3>>
VLow == <<HLow, H2>>
VEmpty == <<H1, HEmpty>>
VLong == <<HLong, H2>>

\* what a backend task meets: a failed health check, an exception, or an answer;
\* result is what the backend holds, and answers when it does answer
Unhealthy(result) == [status |-> "unhealthy", result |-> result]
Raises(result) == [status |-> "raises", result |-> result]
Answers(result) == [status |-> "ok", result |-> result]

Call(query, max_sources, include_graph, include_vector, kwargs) ==
    [query |-> query, max_sources |-> max_sources, include_graph |-> include_graph,
     include_vector |-> include_vector, kwargs |-> kwargs]

(***************************************************************************)
(* Spec: two calls, concurrent or one after the other, of a                 *)
(* service with both adapters and the cache enabled.                       *)
(***************************************************************************)
Configs == {Config(TRUE, TRUE, TRUE, 1), Config(TRUE, TRUE, TRUE, BigCap)}

Calls == {Call(QA, 2, TRUE, TRUE, <<>>), Call(QA2, 2, TRUE, TRUE, <<>>),
          Call(QA, 1, TRUE, TRUE, <<>>), Call(QC, 2, TRUE, TRUE, <<>>),
          Call(QC, 0, TRUE, TRUE, <<>>)}

GraphOutcomes == {Unhealthy(G1), Answers(G1)}

VectorOutcomes == {Unhealthy(V1), Answers(V1)}

Init ==
    /\ config \in Configs
    /\ clock = 0
    /\ store = <<>>
    /\ req = [r \in Requests |-> IdleReq]
    /\ fin = NoResult
    /\ fout = NoResult

Next ==
    \/ \E r \in Requests, a \in Calls : Start(r, a)
    \/ \E r \in Requests, o \in GraphOutcomes : GraphTaskDone(r, o)
    \/ \E r \in Requests, o \in VectorOutcomes : VectorTaskDone(r, o)
    \/ \E r \in Requests, b \in {"graph", "vector"} : TaskHang(r, b)
    \/ \E r \in Requests : Finish(r)
    \/ ClearCacheCall
    \/ Tick

Spec == Init /\ [][Next]_vars

\* the call has returned / has returned without a cache hit
Returned(r) == req[r].pc = "done"
Missed(r) == req[r].pc = "done" /\ ~req[r].result.cache_hit

\* what the caller can tell of a source list: the sources, in order, with their scores
Shown(items) ==
    [i \in DOMAIN items |-> [type |-> items[i].type, content |-> items[i].content,
                             relevance_score |-> items[i].relevance_score,
                             metadata |-> items[i].metadata]]

\* C1: when a call has completed on a cache miss with a non-empty source list, a later
\* call with the same arguments that finds the entry of the first call still in the
\* cache (not cleared, evicted or replaced) and not older than the TTL returns
\* cache_hit = TRUE and the same sources, in the same order, with the same scores.
C1_SecondCallHits ==
    \A r1 \in Requests, r2 \in Requests :
        ( /\ r1 # r2
          /\ Missed(r1)
          /\ req[r1].result.sources.items # <<>>
          /\ req[r2].pc # "idle"
          /\ req[r2].args = req[r1].args
          /\ req[r2].began >= req[r1].order
          /\ req[r2].saw.some
          /\ req[r2].saw.entry.sources.id = r1
          /\ req[r2].saw.age <= config.cache_ttl )
        => /\ Returned(r2)
           /\ req[r2].result.cache_hit
           /\ Shown(req[r2].result.sources.items) = Shown(req[r1].result.sources.items)

\* C1 witness: the second call came one tick or more after the first, within the TTL,
\* and returned the two sources of the first as a cache hit
C1_Witness ==
    /\ Missed(1)
    /\ Len(req[1].result.sources.items) = 2
    /\ req[2].args = req[1].args
    /\ req[2].saw.some /\ req[2].saw.entry.sources.id = 1
    /\ req[2].saw.age >= 1 /\ req[2].saw.age <= config.cache_ttl
    /\ Returned(2) /\ req[2].result.cache_hit
    /\ Shown(req[2].result.sources.items) = Shown(req[1].result.sources.items)

\* both calls were in flight at the same time
Concurrent(r1, r2) ==
    /\ req[r1].pc # "idle" /\ req[r2].pc # "idle"
    /\ req[r1].began = 0 /\ req[r2].began = 0

\* C5: two calls with the same fingerprint that are in flight together on an uncached
\* query are neither serialized nor coalesced: each of them that returns has issued its
\* own backend calls and returns cache_hit = FALSE, and once both have returned the
\* entry under the fingerprint (unless cleared since) holds the list of the one that
\* stored last.
C5_BothMissLastWriteWins ==
    \A r1 \in Requests, r2 \in Requests :
        ( /\ r1 # r2
          /\ Concurrent(r1, r2)
          /\ req[r1].key = req[r2].key
          /\ ~req[r1].saw.some /\ ~req[r2].saw.some
          /\ Returned(r1) )
        => /\ ~req[r1].result.cache_hit
           /\ req[r1].tasks = <<"graph", "vector">>
           /\ req[r1].met.graph # "none" /\ req[r1].met.vector # "none"
           /\ (Returned(r2) /\ req[r1].order < req[r2].order /\ store # <<>>)
                => /\ req[r1].key \in CacheKeys(store)
                   /\ store[CacheIndex(store, req[r1].key)].sources = req[r2].result.sources

\* C5 witness: both calls missed, the backends answered them differently, both stored,
\* and the entry holds the list of the second to finish, not that of the first
C5_Witness ==
    /\ Concurrent(1, 2)
    /\ req[1].key = req[2].key
    /\ Missed(1) /\ Missed(2)
    /\ req[2].order < req[1].order
    /\ Shown(req[1].result.sources.items) # Shown(req[2].result.sources.items)
    /\ req[2].result.sources.items # <<>>
    /\ Len(store) = 1
    /\ store[1].sources = req[1].result.sources

(***************************************************************************)
(* WideSpec: one call, of every configuration, with every combination of   *)
(* flags and every kind of backend answer.                                 *)
(***************************************************************************)
WideConfigs == {Config(n, c, e, BigCap) : n \in BOOLEAN, c \in BOOLEAN, e \in BOOLEAN}

WideCalls ==
    {Call(q, m, g, v, k) : q \in {QA, QC}, m \in {1, 2, 5}, g \in BOOLEAN, v \in BOOLEAN,
                           k \in {<<>>, << <<"similarity_threshold", 60>> >>}}

WideGraphOutcomes == {Unhealthy(G1), Raises(G1), Answers(G0), Answers(G1), Answers(GLong)}

WideVectorOutcomes ==
    {Unhealthy(V1), Raises(V1), Answers(V0), Answers(V1), Answers(VDup), Answers(VLow),
     Answers(VEmpty), Answers(VLong)}

WideInit ==
    /\ config \in WideConfigs
    /\ clock = 0
    /\ store = <<>>
    /\ req = [r \in Requests |-> IdleReq]
    /\ fin = NoResult
    /\ fout = NoResult

WideNext ==
    \/ \E a \in WideCalls : Start(1, a)
    \/ \E o \in WideGraphOutcomes : GraphTaskDone(1, o)
    \/ \E o \in WideVectorOutcomes : VectorTaskDone(1, o)
    \/ \E b \in {"graph", "vector"} : TaskHang(1, b)
    \/ Finish(1)
    \/ ClearCacheCall
    \/ Tick

WideSpec == WideInit /\ [][WideNext]_vars

(***************************************************************************)
(* KeySpec: _generate_cache_key applied to two (query, options) pairs.     *)
(* An options dict is drawn as the values of its keys, the set of keys it  *)
(* holds and the order in which they were inserted.                        *)
(***************************************************************************)
KeyOrder1 ==
    <<"max_sources", "include_graph", "include_vector", "similarity_threshold", "where">>

KeyOrders ==
    { KeyOrder1,
      <<"where", "similarity_threshold", "include_vector", "include_graph", "max_sources">>,
      <<"include_vector", "where", "max_sources", "similarity_threshold", "include_graph">> }

OptionValue(o, k) ==
    CASE k = "max_sources" -> o.max_sources
      [] k = "include_graph" -> o.include_graph
      [] k = "include_vector" -> o.include_vector
      [] k = "similarity_threshold" -> o.similarity_threshold
      [] k = "where" -> o.where

\* the items of the dict holding the keys o.has, inserted in the order `order`
RECURSIVE DictItems(_, _)
DictItems(o, order) ==
    IF order = <<>> THEN <<>>
    ELSE IF Head(order) \in o.has
         THEN <<<<Head(order), OptionValue(o, Head(order))>>>> \o DictItems(o, Tail(order))
         ELSE DictItems(o, Tail(order))

KeyQueries ==
    { <<"a", " ", "b">>, <<"A", " ", "B">>, <<" ", "a", " ", "b", " ">>, <<"b">> }

KeyHas ==
    { {"max_sources", "include_graph", "include_vector", "similarity_threshold"},
      {"max_sources", "include_graph", "include_vector", "similarity_threshold", "where"},
      {"include_graph", "include_vector", "similarity_threshold"},
      {"max_sources", "include_graph", "include_vector"},
      {"max_sources", "include_vector", "similarity_threshold"},
      {} }

KeyOptions ==
    [ has : KeyHas,
      max_sources : {1, DefaultMaxSources},
      include_graph : BOOLEAN,
      include_vector : BOOLEAN,
      similarity_threshold : {60, DefaultThreshold},
      where : {1} ]

\* the second dict: the first one with at most one value or its key set changed
KeyVariants(o) ==
    {o} \cup {[o EXCEPT !.has = h] : h \in KeyHas}
        \cup {[o EXCEPT !.max_sources = m] : m \in {1, 2, DefaultMaxSources}}
        \cup {[o EXCEPT !.include_graph = ~@], [o EXCEPT !.include_vector = ~@]}
        \cup {[o EXCEPT !.similarity_threshold = t] : t \in {60, DefaultThreshold, 90}}
        \cup {[o EXCEPT !.where = 2]}

KeyInit ==
    /\ \E q1 \in KeyQueries, q2 \in KeyQueries, o1 \in KeyOptions, ord2 \in KeyOrders :
          \E ord1 \in {KeyOrder1} :
          \E o2 \in KeyVariants(o1) :
             fin = [q1 |-> q1, q2 |-> q2, o1 |-> o1, o2 |-> o2, ord1 |-> ord1, ord2 |-> ord2]
    /\ fout = NoResult
    /\ ServiceIdle

ApplyKey ==
    /\ fout.op = "none"
    /\ fout' = [op |-> "key",
                k1 |-> GenerateCacheKey(fin.q1, DictItems(fin.o1, fin.ord1)),
                k2 |-> GenerateCacheKey(fin.q2, DictItems(fin.o2, fin.ord2))]
    /\ UNCHANGED <<fin, service>>

KeyNext == ApplyKey

KeySpec == KeyInit /\ [][KeyNext]_vars

\* two dicts hold the same keys with the same values
SameItems(d1, d2) ==
    /\ \A i \in DOMAIN d1 : \E j \in DOMAIN d2 : d1[i][1] = d2[j][1] /\ d1[i][2] = d2[j][2]
    /\ \A j \in DOMAIN d2 : \E i \in DOMAIN d1 : d1[i][1] = d2[j][1] /\ d1[i][2] = d2[j][2]

\* the value of option k in force for a dict: its value, or the default of a missing key
InForce(d, k) ==
    CASE k = "max_sources" -> DictGet(d, k, DefaultMaxSources)
      [] k = "include_graph" -> DictGet(d, k, TRUE)
      [] k = "include_vector" -> DictGet(d, k, TRUE)
      [] k = "similarity_threshold" -> DictGet(d, k, DefaultThreshold)

\* C10: fingerprinting is deterministic and sensitive.  For the same query, two option
\* dicts holding the same items in any insertion order get the same fingerprint; two
\* requests whose max_sources, include_graph, include_vector or similarity_threshold in
\* force differ, or whose normalized (lowercased, trimmed) queries differ, get different
\* fingerprints.
C10_FingerprintDeterministicSensitive ==
    fout.op = "key" =>
        LET d1 == DictItems(fin.o1, fin.ord1)
            d2 == DictItems(fin.o2, fin.ord2)
        IN  /\ (fin.q1 = fin.q2 /\ SameItems(d1, d2)) => fout.k1 = fout.k2
            /\ (\E k \in OptionKeys : InForce(d1, k) # InForce(d2, k)) => fout.k1 # fout.k2
            /\ TStrip(TLower(fin.q1)) # TStrip(TLower(fin.q2)) => fout.k1 # fout.k2

\* C10 witness: one query with the same five items inserted in different orders was
\* fingerprinted alike
C10_Witness ==
    /\ fout.op = "key"
    /\ fin.q1 = fin.q2
    /\ fin.ord1 # fin.ord2
    /\ fin.o1 = fin.o2
    /\ Cardinality(fin.o1.has) = 5
    /\ fout.k1 = fout.k2

(***************************************************************************)
(* CacheSpec: _get_from_cache, _store_in_cache and clear_cache applied to  *)
(* a cache the service can hold.  Keys are opaque (numbers here), and so   *)
(* are the stored lists.                                                   *)
(***************************************************************************)

CacheCaps == (1..SmallCap) \cup {BigCap}

TimestampsOf(n) ==
    IF n <= SmallCap
    THEN [1..n -> 0..MaxTime]
    ELSE { [i \in 1..n |-> (a * i + b) % m] : a \in 0..2, b \in 0..1, m \in 1..(MaxTime + 1) }

CacheOf(n, ts) ==
    [i \in 1..n |-> [key |-> i,
                     sources |-> IF i % 3 = 0 THEN <<>> ELSE <<i>>,
                     timestamp |-> ts[i],
                     access_count |-> i % 2]]

\* The dict reaches max_cache_size entries only by the insertion of a new last entry
\* (a store at capacity evicts first), so a full cache ends with its newest entry; a
\* disabled cache stays empty; no timestamp lies in the future.
CacheInit ==
    /\ \E cap \in CacheCaps, enabled \in BOOLEAN, now \in 0..MaxTime :
          \E n \in 0..cap :
             \E ts \in TimestampsOf(n), key \in {1, n \div 2, n, n + 1} \ {0} :
                /\ \A i \in 1..n : ts[i] <= now
                /\ n = cap => \A i \in 1..n : ts[i] <= ts[n]
                /\ ~enabled => n = 0
                /\ fin = [cache |-> CacheOf(n, ts), now |-> now, key |-> key,
                          sources |-> <<0>>,
                          cfg |-> [cache_enabled |-> enabled, cache_ttl |-> CacheTtl,
                                   max_cache_size |-> cap]]
    /\ fout = NoResult
    /\ ServiceIdle

ApplyLookup ==
    /\ fout.op = "none"
    /\ LET r == GetFromCache(fin.cache, fin.key, fin.now, fin.cfg)
       IN  fout' = [op |-> "lookup", cache |-> r.cache, some |-> r.some,
                    sources |-> r.sources, evicted |-> {}]
    /\ UNCHANGED <<fin, service>>

ApplyStore ==
    /\ fout.op = "none"
    /\ fout' = [op |-> "store",
                cache |-> StoreInCache(fin.cache, fin.key, fin.sources, fin.now, fin.cfg),
                some |-> FALSE, sources |-> <<>>,
                evicted |-> IF fin.cfg.cache_enabled THEN EvictedKeys(fin.cache, fin.cfg)
                            ELSE {}]
    /\ UNCHANGED <<fin, service>>

ApplyClear ==
    /\ fout.op = "none"
    /\ fout' = [op |-> "clear", cache |-> ClearCache(fin.cache), some |-> FALSE,
                sources |-> <<>>, evicted |-> {}]
    /\ UNCHANGED <<fin, service>>

CacheNext == ApplyLookup \/ ApplyStore \/ ApplyClear

CacheSpec == CacheInit /\ [][CacheNext]_vars

\* the entry stored under the looked-up or stored key before the operation
PriorEntry == fin.cache[CacheIndex(fin.cache, fin.key)]

\* C8: a lookup of an entry older than cache_ttl returns a miss and deletes the entry; a
\* lookup of an entry not older than cache_ttl returns the stored list; no lookup returns
\* the sources of an expired entry.
C8_LookupExpiry ==
    fout.op = "lookup" =>
        /\ (fin.key \in CacheKeys(fin.cache) /\ fin.now - PriorEntry.timestamp > CacheTtl)
              => (~fout.some /\ fin.key \notin CacheKeys(fout.cache))
        /\ (fin.key \in CacheKeys(fin.cache) /\ fin.now - PriorEntry.timestamp <= CacheTtl)
              => (fout.some /\ fout.sources = PriorEntry.sources)
        /\ fout.some
              => (fin.key \in CacheKeys(fin.cache)
                    /\ fin.now - PriorEntry.timestamp <= CacheTtl)

\* C8 witness: an expired entry was looked up and is gone, the others are still there
C8_Witness ==
    /\ fout.op = "lookup"
    /\ fin.key \in CacheKeys(fin.cache)
    /\ fin.now - PriorEntry.timestamp > CacheTtl
    /\ CacheKeys(fout.cache) = CacheKeys(fin.cache) \ {fin.key}
    /\ Len(fin.cache) >= 2

TimestampOfKey(cache, k) == cache[CacheIndex(cache, k)].timestamp

\* C9: a store into a cache holding n >= max_cache_size entries first removes exactly
\* max(1, n div 10) of them, none of them newer than an entry that is kept; a store into
\* a cache below capacity removes none.
C9_EvictOldestTenth ==
    (fout.op = "store" /\ fin.cfg.cache_enabled) =>
        LET n == Len(fin.cache)
            before == CacheKeys(fin.cache)
            gone == fout.evicted
        IN  /\ n >= fin.cfg.max_cache_size =>
                  /\ gone \subseteq before
                  /\ Cardinality(gone) = Max(1, n \div 10)
                  /\ \A r \in gone : \A k \in before \ gone :
                        TimestampOfKey(fin.cache, r) <= TimestampOfKey(fin.cache, k)
            /\ n < fin.cfg.max_cache_size => gone = {}
            /\ CacheKeys(fout.cache) = (before \ gone) \cup {fin.key}
            /\ Len(fout.cache) = Cardinality((before \ gone) \cup {fin.key})

\* C9 witness: a store into a full cache of at least twenty entries of different ages
\* removed two of them
C9_Witness ==
    /\ fout.op = "store"
    /\ Len(fin.cache) >= 20
    /\ Cardinality(fout.evicted) = 2
    /\ \E i, j \in DOMAIN fin.cache : fin.cache[i].timestamp < fin.cache[j].timestamp
    /\ Len(fout.cache) = Len(fin.cache) - 1

(***************************************************************************)
(* Claims about one call (WideSpec)                                        *)
(***************************************************************************)
\* the call has returned or raised
Over(r) == req[r].pc \in {"done", "raised"}

Failed(r, b) == req[r].met[b] \in {"unhealthy", "raises"}

TypesOf(r) == {req[r].result.sources.items[i].type : i \in DOMAIN req[r].result.sources.items}

ContentsOf(r) ==
    {req[r].result.sources.items[i].content : i \in DOMAIN req[r].result.sources.items}

\* C2: with both backends selected and configured, when exactly one of them fails (health
\* check unhealthy, or an exception) the call does not raise and returns sources of the
\* other backend only, drawn from what that backend returned.
C2_OneBackendFails ==
    \A r \in Requests :
        (Over(r) /\ req[r].tasks = <<"graph", "vector">>) =>
            /\ (Failed(r, "graph") /\ req[r].met.vector = "ok")
                  => /\ Returned(r)
                     /\ TypesOf(r) \subseteq {"vector"}
                     /\ ContentsOf(r) \subseteq
                          {req[r].value.vector.hits[i].document :
                              i \in DOMAIN req[r].value.vector.hits}
            /\ (Failed(r, "vector") /\ req[r].met.graph = "ok")
                  => /\ Returned(r)
                     /\ TypesOf(r) \subseteq {"graph"}

\* C3: with no graph adapter, a configured vector adapter that answers with valid hits at
\* or above the threshold, and both include flags set, the call does not raise and
\* returns those hits as vector-typed sources.
C3_MissingAdapterSkipped ==
    \A r \in Requests :
        ( /\ Over(r)
          /\ req[r].args.include_graph /\ req[r].args.include_vector
          /\ ~config.neo4j_client /\ config.chromadb_client
          /\ req[r].met.vector = "ok"
          /\ req[r].value.vector.hits # <<>>
          /\ ConvertVectorToSources(req[r].value.vector.hits).ok )
        => /\ Returned(r)
           /\ TypesOf(r) = {"vector"}
           /\ ContentsOf(r) \subseteq
                {req[r].value.vector.hits[i].document :
                    i \in DOMAIN req[r].value.vector.hits}

\* the backend is excluded by its flag, has no adapter, or failed
Absent(r, b) ==
    \/ b = "graph" /\ (~req[r].args.include_graph \/ ~config.neo4j_client)
    \/ b = "vector" /\ (~req[r].args.include_vector \/ ~config.chromadb_client)
    \/ Failed(r, b)

\* C4: when every backend is excluded, unavailable or failed, the call returns an empty
\* source list with cache_hit = FALSE; it does not raise.
C4_AllBackendsAbsent ==
    \A r \in Requests :
        (Over(r) /\ Absent(r, "graph") /\ Absent(r, "vector"))
        => /\ Returned(r)
           /\ req[r].result.sources.items = <<>>
           /\ ~req[r].result.cache_hit

\* C4 witness: both backends were called, the graph health check failed and the vector
\* task raised; the call returned nothing and cached it
C4_Witness ==
    /\ req[1].tasks = <<"graph", "vector">>
    /\ req[1].met.graph = "unhealthy" /\ req[1].met.vector = "raises"
    /\ Returned(1)
    /\ req[1].result.sources.items = <<>>
    /\ ~req[1].result.cache_hit
    /\ Len(store) = 1 /\ store[1].sources.items = <<>>

\* C6: a call one of whose backends never responds still returns: once its other
\* backend task (if any) is done, the call is not stuck waiting, its return step can be
\* taken.
C6_HungBackendStillReturns ==
    \A r \in Requests :
        ( /\ req[r].pc = "await"
          /\ \E b \in {"graph", "vector"} : req[r].task[b] = "hung"
          /\ \A b \in {"graph", "vector"} : req[r].task[b] # "pending" )
        => ENABLED Finish(r)

(***************************************************************************)
(* CallerSpec: Spec together with what the code that called                *)
(* retrieve_knowledge may do to the list and the Source objects it was     *)
(* handed.  A change to an object shows through every reference to it.     *)
(***************************************************************************)
\* sources.pop() on the list the call returned
Popped(list, id) ==
    IF list.id = id THEN [list EXCEPT !.items = SubSeq(@, 1, Len(@) - 1)] ELSE list

\* source.relevance_score = 0.0 on the Source object oid
Rescored(list, oid) ==
    [list EXCEPT !.items = [j \in DOMAIN list.items |->
                              IF list.items[j].oid = oid
                              THEN [list.items[j] EXCEPT !.relevance_score = 0]
                              ELSE list.items[j]]]

CallerPopsSource(r) ==
    /\ Returned(r)
    /\ req[r].result.sources.items # <<>>
    /\ LET id == req[r].result.sources.id
       IN  /\ store' = [i \in DOMAIN store |->
                          [store[i] EXCEPT !.sources = Popped(@, id)]]
           /\ req' = [q \in Requests |-> [req[q] EXCEPT !.result.sources = Popped(@, id)]]
    /\ UNCHANGED <<config, clock, fin, fout>>

CallerRescoresSource(r, i) ==
    /\ Returned(r)
    /\ i \in DOMAIN req[r].result.sources.items
    /\ req[r].result.sources.items[i].relevance_score # 0
    /\ LET oid == req[r].result.sources.items[i].oid
       IN  /\ store' = [j \in DOMAIN store |->
                          [store[j] EXCEPT !.sources = Rescored(@, oid)]]
           /\ req' = [q \in Requests |-> [req[q] EXCEPT !.result.sources = Rescored(@, oid)]]
    /\ UNCHANGED <<config, clock, fin, fout>>

CallerNext ==
    \/ Next
    \/ \E r \in Requests : CallerPopsSource(r)
    \/ \E r \in Requests, i \in 1..2 : CallerRescoresSource(r, i)

\* the cache never fills: what the caller does is set against an entry that stays
CallerInit == Init /\ config.max_cache_size = BigCap

CallerSpec == CallerInit /\ [][CallerNext]_vars

\* C7: whatever a caller does to what it was handed, a cache entry holds the sources
\* that were stored in it, and so does every entry a later call finds.
C7_CallerCannotCorruptCache ==
    /\ \A i \in DOMAIN store :
          store[i].sources.items = req[store[i].sources.id].stored
    /\ \A r \in Requests :
          req[r].saw.some
             => req[r].saw.entry.sources.items = req[req[r].saw.entry.sources.id].stored

(***************************************************************************)
(* Claims about the hit path and the task list                              *)
(***************************************************************************)
\* the call issued no backend call of any kind
NoBackendCall(r) ==
    /\ req[r].tasks = <<>>
    /\ req[r].task = [graph |-> "none", vector |-> "none"]
    /\ req[r].met = [graph |-> "none", vector |-> "none"]

\* C11: a call that finds an unexpired entry under its fingerprint returns at once: it
\* issues no backend call, cache_hit is TRUE, and the sources are the stored list cut to
\* max_sources.
C11_HitReturnsImmediately ==
    \A r \in Requests :
        (req[r].pc # "idle" /\ req[r].saw.some /\ req[r].saw.age <= config.cache_ttl)
        => /\ Returned(r)
           /\ NoBackendCall(r)
           /\ req[r].result.cache_hit
           /\ Shown(req[r].result.sources.items)
                = Shown(Take(req[r].saw.entry.sources.items, req[r].args.max_sources))

\* C12: a call with include_graph and include_vector both false issues no backend
\* call, does not raise, and returns an empty source list.
C12_BothFlagsFalse ==
    \A r \in Requests :
        (req[r].pc # "idle" /\ ~req[r].args.include_graph /\ ~req[r].args.include_vector)
        => /\ Returned(r)
           /\ NoBackendCall(r)
           /\ req[r].result.sources.items = <<>>

\* C12 witness: both adapters are there and the cache is on; the call with both flags
\* false returned nothing without a backend call, and cached the empty list
C12_Witness ==
    /\ config.neo4j_client /\ config.chromadb_client /\ config.cache_enabled
    /\ ~req[1].args.include_graph /\ ~req[1].args.include_vector
    /\ Returned(1)
    /\ NoBackendCall(1)
    /\ req[1].result.sources.items = <<>>
    /\ Len(store) = 1

\* C13: a backend excluded by its flag is never called, and a call that returns holds
\* no source of its type.
C13_ExcludedBackendUnused ==
    \A r \in Requests :
        req[r].pc # "idle" =>
            /\ ~req[r].args.include_vector
                  => /\ req[r].task.vector = "none" /\ req[r].met.vector = "none"
                     /\ \A i \in DOMAIN req[r].tasks : req[r].tasks[i] # "vector"
                     /\ Returned(r) => TypesOf(r) \subseteq {"graph"}
            /\ ~req[r].args.include_graph
                  => /\ req[r].task.graph = "none" /\ req[r].met.graph = "none"
                     /\ \A i \in DOMAIN req[r].tasks : req[r].tasks[i] # "graph"
                     /\ Returned(r) => TypesOf(r) \subseteq {"vector"}

\* C13 witness: both adapters are there; a vector-only call returned two vector sources
\* and the graph backend was not called
C13_Witness ==
    /\ config.neo4j_client /\ config.chromadb_client
    /\ ~req[1].args.include_graph /\ req[1].args.include_vector
    /\ req[1].tasks = <<"vector">>
    /\ req[1].met = [graph |-> "none", vector |-> "ok"]
    /\ Returned(1)
    /\ Len(req[1].result.sources.items) = 2
    /\ TypesOf(1) = {"vector"}

(***************************************************************************)
(* PipelineSpec: _deduplicate_sources, _rank_sources and                   *)
(* _aggregate_context applied to a list of sources as the converters make  *)
(* them, for hits of several similarities and services of several          *)
(* vector weights.  A Source that fails validation is never made.          *)
(***************************************************************************)
\* the document of H1 in another case, with the similarity of H1
H1b == Hit("d7", <<"a", " ", "B", " ", "x*150">>, 80)
\* a distance above 1.0, a distance of 1.0 and a distance of 0.0
HNeg == Hit("d8", <<"b">>, 0 - 10)
HZero == Hit("d10", <<"b">>, 0)
HFull == Hit("d9", <<"b", " ", "c">>, SimilarityOne)

PoolHits == {H1, H1b, H3, H2, HNeg, HZero, HFull}

\* vector_weight, in tenths
PoolWeights == {VectorWeightTenths, 10, 15}

PoolCandidates ==
    {[VectorSource(h) EXCEPT
         !.relevance_score = Weighted(SimilarityUnits(h.similarity_score), w)] :
       h \in PoolHits, w \in PoolWeights}
    \cup {ConvertGraphToSources(G1, QC).sources[i] : i \in 1..2}

SourcePool == {s \in PoolCandidates : ValidSource(s.content, s.relevance_score)}

PipelineInit ==
    /\ \E n \in 0..MaxPipeLen :
          \E sources \in [1..n -> SourcePool], query \in {QA, QC} :
             fin = [sources |-> sources, query |-> query, now |-> MaxClock]
    /\ fout = NoResult
    /\ ServiceIdle

ApplyDedup ==
    /\ fout.op = "none"
    /\ fout' = [op |-> "dedup", out |-> DeduplicateSources(fin.sources),
                again |-> DeduplicateSources(DeduplicateSources(fin.sources))]
    /\ UNCHANGED <<fin, service>>

ApplyRank ==
    /\ fout.op = "none"
    /\ fout' = [op |-> "rank", out |-> RankSources(fin.sources, fin.query)]
    /\ UNCHANGED <<fin, service>>

ApplyAggregate ==
    /\ fout.op = "none"
    /\ fout' = [op |-> "aggregate", out |-> AggregateContext(fin.sources, fin.now)]
    /\ UNCHANGED <<fin, service>>

PipelineNext == ApplyDedup \/ ApplyRank \/ ApplyAggregate

PipelineSpec == PipelineInit /\ [][PipelineNext]_vars

\* the positions of a list whose source has the normalized content h
Group(sources, h) == {i \in DOMAIN sources : ContentHash(sources[i]) = h}

\* the first position of the group h that holds the group's highest score
FirstTop(sources, h) ==
    LET g == Group(sources, h)
        top == {i \in g : \A j \in g : sources[j].relevance_score <= sources[i].relevance_score}
    IN  CHOOSE i \in top : \A j \in top : i <= j

\* C14: the deduplicated list holds exactly one source for each normalized content of
\* the input, and it is the first-seen of the highest-scored sources of that content.
C14_DedupKeepsFirstHighest ==
    fout.op = "dedup" =>
        /\ {ContentHash(fout.out[i]) : i \in DOMAIN fout.out}
             = {ContentHash(fin.sources[i]) : i \in DOMAIN fin.sources}
        /\ \A i \in DOMAIN fout.out, j \in DOMAIN fout.out :
              ContentHash(fout.out[i]) = ContentHash(fout.out[j]) => i = j
        /\ \A i \in DOMAIN fout.out :
              fout.out[i] = fin.sources[FirstTop(fin.sources, ContentHash(fout.out[i]))]

\* C14 witness: three different sources of one normalized content, a low score first and
\* then twice the same higher score; the second is the one kept
C14_Witness ==
    /\ fout.op = "dedup"
    /\ Len(fin.sources) = 3
    /\ Cardinality({ContentHash(fin.sources[i]) : i \in 1..3}) = 1
    /\ fin.sources[1].relevance_score < fin.sources[2].relevance_score
    /\ fin.sources[2].relevance_score = fin.sources[3].relevance_score
    /\ fin.sources[2] # fin.sources[3]
    /\ fout.out = <<fin.sources[2]>>

\* C15: deduplicating a deduplicated list returns it unchanged.
C15_DedupIdempotent ==
    fout.op = "dedup" => fout.again = fout.out

\* C15 witness: a list of three sources was reduced to two, and a second pass kept both
C15_Witness ==
    /\ fout.op = "dedup"
    /\ Len(fin.sources) = 3
    /\ Len(fout.out) = 2
    /\ fout.again = fout.out

(***************************************************************************)
(* Claims about the returned list (Spec)                                   *)
(***************************************************************************)
NonIncreasing(items) ==
    \A i \in 1..(Len(items) - 1) : items[i].relevance_score >= items[i + 1].relevance_score

\* C16: the sources of every result, whether it was computed on a miss or served from the
\* cache, are in non-increasing order of relevance_score.
C16_ResultSorted ==
    \A r \in Requests : Returned(r) => NonIncreasing(req[r].result.sources.items)

\* C16 witness: one call returned two sources of different scores on a miss and another
\* call was served two sources of different scores from the cache
C16_Witness ==
    \E r1 \in Requests, r2 \in Requests :
        /\ Missed(r1) /\ Returned(r2) /\ req[r2].result.cache_hit
        /\ \A r \in {r1, r2} :
              /\ Len(req[r].result.sources.items) = 2
              /\ req[r].result.sources.items[1].relevance_score
                   > req[r].result.sources.items[2].relevance_score

(***************************************************************************)
(* Claims about the ranker and the aggregator (PipelineSpec)               *)
(***************************************************************************)
\* the sum of the base score and the three boosts of a source, before the clamp
TermSum(source, query) ==
    source.relevance_score + ContentBoost(source.content, WordSet(TLower(query)))
      + TypeBoost(source.type) + MetadataBoost(source.metadata)

\* C17: every source that comes out of the ranker has a relevance_score from 0.0 to 1.0,
\* whatever similarity the backend reported and whatever weight is configured.
C17_ScoreInUnitInterval ==
    fout.op = "rank" =>
        \A i \in DOMAIN fout.out :
            /\ 0 <= fout.out[i].relevance_score
            /\ fout.out[i].relevance_score <= One

\* C17 witness: the ranker was given a source whose four terms add up to more than 1.0
\* and one whose base score is 0.0, and it put out both
C17_Witness ==
    /\ fout.op = "rank"
    /\ Len(fout.out) = Len(fin.sources)
    /\ \E i \in DOMAIN fin.sources : TermSum(fin.sources[i], fin.query) > One
    /\ \E i \in DOMAIN fin.sources : fin.sources[i].relevance_score = 0
    /\ \E i \in DOMAIN fout.out : fout.out[i].relevance_score = One

(***************************************************************************)
(* Claims about the size of the returned list (Spec)                       *)
(***************************************************************************)
\* type, content and score of the sources of a list, in order
Scored(items) ==
    [i \in DOMAIN items |-> [type |-> items[i].type, content |-> items[i].content,
                             relevance_score |-> items[i].relevance_score]]

\* the deduplicated candidates of a call that went to the backends, ranked for its query
RankedCandidates(r) ==
    LET got == req[r].result
        g == IF Truthy(got.graph_results)
             THEN ConvertGraphToSources(got.graph_results, req[r].args.query).sources
             ELSE <<>>
        v == ConvertVectorToSources(got.vector_results).sources
    IN  RankSources(DeduplicateSources(g \o v), req[r].args.query)

\* the first n sources of a ranked list, or all of them when there are fewer
TopOf(ranked, n) == SubSeq(ranked, 1, IF n < Len(ranked) THEN n ELSE Len(ranked))

\* the call whose list a call found in the cache
Populated(r) == req[r].saw.entry.sources.id

\* C18: a call returns at most max_sources sources, and they are the first max_sources
\* of the ranked deduplicated candidates: those of the call itself on a miss, those of
\* the call that filled the entry on a hit.
C18_TopMaxSources ==
    \A r \in Requests :
        Returned(r) =>
            /\ Len(req[r].result.sources.items) <= req[r].args.max_sources
            /\ Missed(r) =>
                  Scored(req[r].result.sources.items)
                    = Scored(TopOf(RankedCandidates(r), req[r].args.max_sources))
            /\ req[r].result.cache_hit =>
                  /\ Populated(r) \in Requests \ {r}
                  /\ Missed(Populated(r))
                  /\ Scored(req[r].result.sources.items)
                       = Scored(TopOf(RankedCandidates(Populated(r)), req[r].args.max_sources))

\* C18 witness: a call that asked for one source had three candidates and got the first
\* of them, a later call with the same arguments was served from the cache
C18_Witness ==
    \E r1 \in Requests, r2 \in Requests :
        /\ Missed(r1) /\ Returned(r2) /\ req[r2].result.cache_hit
        /\ Populated(r2) = r1
        /\ req[r1].args.max_sources = 1
        /\ Len(RankedCandidates(r1)) = 3
        /\ Len(req[r1].result.sources.items) = 1
        /\ Len(req[r2].result.sources.items) = 1

(***************************************************************************)
(* Claims about hits that cannot form a Source (WideSpec)                  *)
(***************************************************************************)
\* the hits of the vector answer of a call that can form a Source
ValidHits(r) ==
    SelectSeq(req[r].value.vector.hits,
              LAMBDA hit : ValidSource(hit.document,
                                       Weighted(SimilarityUnits(hit.similarity_score),
                                                VectorWeightTenths)))

\* C19: when both backends answered, the call does not raise whatever the answers hold,
\* and every vector hit that can form a Source is among the candidates: with room for
\* all of them, its normalized content is in the returned list.
C19_InvalidHitFiltered ==
    \A r \in Requests :
        ( /\ Over(r)
          /\ req[r].tasks = <<"graph", "vector">>
          /\ req[r].met.graph = "ok" /\ req[r].met.vector = "ok" )
        => /\ Returned(r)
           /\ req[r].args.max_sources = DefaultMaxSources =>
                 \A i \in DOMAIN ValidHits(r) :
                    \E j \in DOMAIN req[r].result.sources.items :
                       ContentHash(req[r].result.sources.items[j])
                         = TStrip(TLower(ValidHits(r)[i].document))

(***************************************************************************)
(* Claims about the aggregator (PipelineSpec)                              *)
(***************************************************************************)
\* the metadata keys _aggregate_context writes
AggregateKeys == {"related_documents", "retrieval_timestamp", "retrieval_method"}

\* C20: _aggregate_context returns the sources it was given, in the same order, with the
\* same type, content and relevance_score; every metadata key of the input is still
\* there, the keys it did not write hold the same values, every source carries
\* retrieval_timestamp and retrieval_method = "hybrid", and related_documents is new
\* on graph sources only.
C20_AggregateOnlyAddsMetadata ==
    fout.op = "aggregate" =>
        /\ Len(fout.out) = Len(fin.sources)
        /\ \A i \in DOMAIN fin.sources :
              LET old == fin.sources[i]
                  new == fout.out[i]
              IN  /\ new.type = old.type
                  /\ new.content = old.content
                  /\ new.relevance_score = old.relevance_score
                  /\ DOMAIN old.metadata \subseteq DOMAIN new.metadata
                  /\ DOMAIN new.metadata \ DOMAIN old.metadata \subseteq AggregateKeys
                  /\ \A k \in DOMAIN old.metadata \ AggregateKeys :
                        new.metadata[k] = old.metadata[k]
                  /\ new.metadata["retrieval_method"] = "hybrid"
                  /\ new.metadata["retrieval_timestamp"] = fin.now
                  /\ ("related_documents" \in DOMAIN new.metadata
                        /\ "related_documents" \notin DOMAIN old.metadata)
                       => old.type = "graph"

\* C20 witness: a list of a graph source and the vector source that names its entity,
\* not in ranked order, came out with related_documents on the graph source alone
C20_Witness ==
    /\ fout.op = "aggregate"
    /\ \E i \in DOMAIN fout.out, j \in DOMAIN fout.out :
          /\ fout.out[i].type = "graph" /\ fout.out[j].type = "vector"
          /\ "related_documents" \in DOMAIN fout.out[i].metadata
          /\ "related_documents" \notin DOMAIN fout.out[j].metadata
          /\ i < j
          /\ fout.out[i].relevance_score < fout.out[j].relevance_score

(***************************************************************************)
(* Claims about the similarity threshold (WideSpec)                        *)
(***************************************************************************)
\* the threshold in force for a call: the option of the call, else the configured one
ThresholdOf(r) ==
    DictGet(req[r].args.kwargs, "similarity_threshold", config.similarity_threshold)

\* every vector source of the list has a backend similarity at or above t
AboveThreshold(items, t) ==
    \A i \in DOMAIN items :
        items[i].type = "vector" => items[i].metadata["similarity_score"] >= t

\* C21: every vector source a call returns, and every vector source of the entry cached
\* under its fingerprint, has a backend similarity_score at or above the threshold in
\* force for the call.
C21_ThresholdRespected ==
    \A r \in Requests :
        Returned(r) =>
            /\ AboveThreshold(req[r].result.sources.items, ThresholdOf(r))
            /\ \A i \in DOMAIN store :
                  store[i].key = req[r].key
                    => AboveThreshold(store[i].sources.items, ThresholdOf(r))

\* C21 witness: under a per-request threshold below the default the vector backend
\* answered, and a hit between the two thresholds is in the result, which is cached
C21_Witness ==
    \E r \in Requests :
        /\ Returned(r)
        /\ ThresholdOf(r) < config.similarity_threshold
        /\ req[r].met.vector = "ok"
        /\ \E i \in DOMAIN req[r].result.sources.items :
              /\ req[r].result.sources.items[i].type = "vector"
              /\ req[r].result.sources.items[i].metadata["similarity_score"]
                   < config.similarity_threshold
        /\ \E i \in DOMAIN store :
              /\ store[i].key = req[r].key
              /\ store[i].sources.items # <<>>

(***************************************************************************)
(* Claims about cached empty lists (Spec)                                  *)
(***************************************************************************)
\* C22: when a call has completed on a miss with an empty source list, a later call with
\* the same arguments that finds the entry of the first call in the cache, not older
\* than the TTL, returns cache_hit = TRUE with the empty list and calls no backend.
C22_EmptyListServedFromCache ==
    \A r1 \in Requests, r2 \in Requests :
        ( /\ r1 # r2
          /\ Missed(r1)
          /\ req[r1].result.sources.items = <<>>
          /\ req[r2].pc # "idle"
          /\ req[r2].args = req[r1].args
          /\ req[r2].began >= req[r1].order
          /\ req[r2].saw.some
          /\ req[r2].saw.entry.sources.id = r1
          /\ req[r2].saw.age <= config.cache_ttl )
        => /\ Returned(r2)
           /\ req[r2].result.cache_hit
           /\ req[r2].result.sources.items = <<>>
           /\ NoBackendCall(r2)

(***************************************************************************)
(* Claims about the order of the stages (Spec)                             *)
(***************************************************************************)
\* what the stages leave on a source, the time of the attribution apart
Attributed(items) ==
    [i \in DOMAIN items |->
        [type |-> items[i].type, content |-> items[i].content,
         relevance_score |-> items[i].relevance_score,
         related_documents |-> IF "related_documents" \in DOMAIN items[i].metadata
                               THEN items[i].metadata["related_documents"] ELSE <<>>]]

\* C23: on a miss the aggregator is applied to the whole ranked list of the deduplicated
\* candidates, that list is what is stored, and the call returns its first max_sources.
C23_StagesInOrder ==
    \A r \in Requests :
        Missed(r) =>
            LET final == AggregateContext(RankedCandidates(r), clock)
            IN  /\ Attributed(req[r].stored) = Attributed(final)
                /\ Attributed(req[r].result.sources.items)
                     = Attributed(TopOf(final, req[r].args.max_sources))

(***************************************************************************)
(* MergeSpec: _merge_and_rank_results applied to a graph answer and a list  *)
(* of vector hits, some of which hold the text of a graph source.          *)
(***************************************************************************)
\* chunks that hold the text the converter makes of E1: one at a distance of 0.55, which
\* gives it the weighted score of the graph source for the query "c"
\* ((1.0 - 0.55) * 0.4 = 0.3 * 0.6), and one nearer
HTwin == Hit("d11", GraphContent(E1, G1), 45)
HTwinHigh == Hit("d12", GraphContent(E1, G1), 90)

MergeHits == {H1, H2, H3, HTwin, HTwinHigh}

MergeInit ==
    /\ \E graph \in {G0, G1}, n \in 0..MaxHits, query \in {QA, QC}, m \in {1, DefaultMaxSources} :
          \E hits \in [1..n -> MergeHits] :
             fin = [graph_results |-> graph, vector_results |-> hits, query |-> query,
                    max_sources |-> m, now |-> MaxClock]
    /\ fout = NoResult
    /\ ServiceIdle

ApplyMerge ==
    /\ fout.op = "none"
    /\ fout' = [op |-> "merge",
                out |-> MergeAndRankResults(fin.graph_results, fin.vector_results, fin.query,
                                            fin.max_sources, fin.now, 1)]
    /\ UNCHANGED <<fin, service>>

MergeNext == ApplyMerge

MergeSpec == MergeInit /\ [][MergeNext]_vars

\* the converted sources of each backend
GraphSources == ConvertGraphToSources(fin.graph_results, fin.query).sources
VectorSources == ConvertVectorToSources(fin.vector_results).sources

\* the final list had the vector sources been merged before the graph sources
VectorFirst ==
    AggregateContext(
        Take(RankSources(DeduplicateSources(VectorSources \o GraphSources), fin.query),
             fin.max_sources),
        fin.now)

\* no two candidates of one normalized content have the same score, and no two sources
\* that survive deduplication have the same final score
NoTies ==
    LET c == GraphSources \o VectorSources
        ranked == RankSources(DeduplicateSources(c), fin.query)
    IN  /\ \A i \in DOMAIN c, j \in DOMAIN c :
              (i < j /\ ContentHash(c[i]) = ContentHash(c[j]))
                => c[i].relevance_score # c[j].relevance_score
        /\ \A i \in DOMAIN ranked, j \in DOMAIN ranked :
              i < j => ranked[i].relevance_score # ranked[j].relevance_score

\* C24: the final list is the same, source by source, whether the graph sources are
\* merged before the vector sources or after them.
C24_MergeOrderUnobservable ==
    (fout.op = "merge" /\ fout.out.ok) => Shown(fout.out.sources) = Shown(VectorFirst)

\* C24 as amended: the final list is the same for either merge order whenever no two
\* candidates of one normalized content have equal scores and no two deduplicated
\* sources have equal final scores.
C24_MergeOrderUnobservableWithoutTies ==
    (fout.op = "merge" /\ fout.out.ok /\ NoTies)
        => Shown(fout.out.sources) = Shown(VectorFirst)

\* C24 witness: a graph source and a vector source of the same normalized content and
\* different scores were merged with no tie anywhere, and two sources came out
C24_Witness ==
    /\ fout.op = "merge" /\ fout.out.ok /\ NoTies
    /\ \E i \in DOMAIN GraphSources, j \in DOMAIN VectorSources :
          ContentHash(GraphSources[i]) = ContentHash(VectorSources[j])
    /\ Len(fout.out.sources) >= 2
    /\ Shown(fout.out.sources) = Shown(VectorFirst)

(***************************************************************************)
(* Claims about ties in the ranker (PipelineSpec)                          *)
(***************************************************************************)
\* the input of the ranker, each source with the final score the ranker gives it
FinalScored ==
    [i \in DOMAIN fin.sources |->
        [fin.sources[i] EXCEPT
            !.relevance_score = Min(TermSum(fin.sources[i], fin.query), One)]]

\* the sources of a list that have the score s, in the order of the list
WithScore(items, s) == SelectSeq(items, LAMBDA x : x.relevance_score = s)

\* C25: the sources of one final score come out of the ranker in the order they went in.
C25_TiesKeepInputOrder ==
    fout.op = "rank" =>
        \A i \in DOMAIN FinalScored :
            WithScore(fout.out, FinalScored[i].relevance_score)
              = WithScore(FinalScored, FinalScored[i].relevance_score)

\* C25 witness: two different sources of one final score went in behind a source of a
\* lower score; they came out in front of it, in their input order
C25_Witness ==
    /\ fout.op = "rank"
    /\ Len(fin.sources) = 3
    /\ FinalScored[1].relevance_score < FinalScored[2].relevance_score
    /\ FinalScored[2].relevance_score = FinalScored[3].relevance_score
    /\ FinalScored[2] # FinalScored[3]
    /\ fout.out = <<FinalScored[2], FinalScored[3], FinalScored[1]>>

(***************************************************************************)
(* Claims about interleaving (Spec)                                        *)
(***************************************************************************)
\* the step changes the call r and no other call
StepOf(r) == req'[r] # req[r] /\ \A q \in Requests \ {r} : req'[q] = req[q]

\* the cache after the lookup of the step that starts the call r
LookedUp(r) == GetFromCache(store, req'[r].key, clock, config).cache

SameEntry(i, j) ==
    /\ store'[j].key = store[i].key
    /\ store'[j].timestamp = store[i].timestamp
    /\ store'[j].sources = store[i].sources

\* the step is a call that reports a cache hit for the fingerprint key
HitReported(key) ==
    \E r \in Requests :
        /\ req[r].pc = "idle" /\ req'[r].pc = "done"
        /\ req'[r].result.cache_hit
        /\ req'[r].key = key

\* the cache with every access_count set to 0
Uncounted(cache) == [i \in DOMAIN cache |-> [cache[i] EXCEPT !.access_count = 0]]

\* C27: an entry that a step puts into the cache has access_count 0; a step changes the
\* access_count of an entry only by adding one, and only when it is a call that reports
\* a cache hit for the entry's fingerprint, which always adds one; and the keys a store
\* leaves in the cache are those it would leave were every access_count 0.
C27_AccessCountCountsHits ==
    [][ /\ \A j \in DOMAIN store' :
              (\A i \in DOMAIN store : ~SameEntry(i, j)) => store'[j].access_count = 0
        /\ \A i \in DOMAIN store, j \in DOMAIN store' :
              SameEntry(i, j) =>
                 /\ store'[j].access_count # store[i].access_count
                       => /\ store'[j].access_count = store[i].access_count + 1
                          /\ HitReported(store[i].key)
                 /\ HitReported(store[i].key)
                       => store'[j].access_count = store[i].access_count + 1
        /\ \A r \in Requests :
              (req[r].pc = "await" /\ req'[r].pc = "done") =>
                  CacheKeys(store')
                    = CacheKeys(StoreInCache(Uncounted(store), req[r].key,
                                             req'[r].result.sources, clock, config))
      ]_vars

(***************************************************************************)
(* Claims about the size of the cache (Spec)                               *)
(***************************************************************************)
\* C28: the cache never holds more than max_cache_size entries, whatever calls and
\* clears have run and however they interleaved.
C28_CacheBounded ==
    Len(store) <= config.max_cache_size

\* C28 witness: with room for one entry, two calls of different fingerprints were in
\* flight together and both stored; the entry of the one that finished last is there
C28_Witness ==
    /\ config.max_cache_size = 1
    /\ Concurrent(1, 2)
    /\ Missed(1) /\ Missed(2)
    /\ req[1].key # req[2].key
    /\ \E r \in Requests :
          /\ \A q \in Requests : req[q].order <= req[r].order
          /\ CacheKeys(store) = {req[r].key}

(***************************************************************************)
(* ShareSpec: two calls of retrieve_knowledge whose arguments differ in    *)
(* the case and the surrounding whitespace of the query, in the `where`    *)
(* filter handed to the vector backend, in max_sources, or in nothing.     *)
(***************************************************************************)
Where(filter) == << <<"where", filter>> >>

ShareCalls ==
    {Call(QA, 2, TRUE, TRUE, <<>>), Call(QA2, 2, TRUE, TRUE, <<>>),
     Call(QA, 2, TRUE, TRUE, Where("x")), Call(QA, 2, TRUE, TRUE, Where("y")),
     Call(QA, 1, TRUE, TRUE, Where("x"))}

ShareNext ==
    \/ \E r \in Requests, a \in ShareCalls : Start(r, a)
    \/ \E r \in Requests, o \in GraphOutcomes : GraphTaskDone(r, o)
    \/ \E r \in Requests, o \in VectorOutcomes : VectorTaskDone(r, o)
    \/ \E r \in Requests, b \in {"graph", "vector"} : TaskHang(r, b)
    \/ \E r \in Requests : Finish(r)
    \/ ClearCacheCall
    \/ Tick

ShareSpec == Init /\ [][ShareNext]_vars

\* the five inputs of the fingerprint of a call
FiveInputs(a) ==
    <<TStrip(TLower(a.query)), a.max_sources, a.include_graph, a.include_vector,
      DictGet(a.kwargs, "similarity_threshold", config.similarity_threshold)>>

EntryOf(cache, k) == cache[CacheIndex(cache, k)]

\* C30: a lookup leaves the timestamp of every entry it keeps as it was; it serves the
\* entry under its key when the entry is not older than cache_ttl and not when it is
\* older, whatever the access_count, and a served entry differs afterwards only by an
\* access_count one higher.  A store leaves the entry under its key with the current
\* time as timestamp and access_count 0, and the other entries it keeps as they were.
C30_HitKeepsTimestamp ==
    /\ fout.op = "lookup" =>
          /\ \A k \in CacheKeys(fout.cache) :
                /\ k \in CacheKeys(fin.cache)
                /\ EntryOf(fout.cache, k).timestamp = EntryOf(fin.cache, k).timestamp
          /\ fin.key \in CacheKeys(fin.cache) =>
                /\ fout.some <=> fin.now - PriorEntry.timestamp <= fin.cfg.cache_ttl
                /\ fout.some =>
                      EntryOf(fout.cache, fin.key)
                        = [PriorEntry EXCEPT !.access_count = PriorEntry.access_count + 1]
    /\ (fout.op = "store" /\ fin.cfg.cache_enabled) =>
          /\ EntryOf(fout.cache, fin.key).timestamp = fin.now
          /\ EntryOf(fout.cache, fin.key).access_count = 0
          /\ \A k \in CacheKeys(fout.cache) \ {fin.key} :
                k \in CacheKeys(fin.cache) /\ EntryOf(fout.cache, k) = EntryOf(fin.cache, k)

\* C30 witness: an entry that had been hit before was looked up at an age of exactly
\* cache_ttl; it was served and kept its timestamp
C30_Witness ==
    /\ fout.op = "lookup"
    /\ fin.key \in CacheKeys(fin.cache)
    /\ PriorEntry.access_count = 1
    /\ PriorEntry.timestamp < fin.now
    /\ fin.now - PriorEntry.timestamp = fin.cfg.cache_ttl
    /\ fout.some
    /\ EntryOf(fout.cache, fin.key).timestamp = PriorEntry.timestamp
    /\ EntryOf(fout.cache, fin.key).access_count = 2

====
